---- MODULE Spec2Model ----
(***************************************************************************)
(* Order / payment / webhook reconciliation core of the PetNeeds backend.  *)
(* The store is MySQL behind Sequelize.  A request handler is a process    *)
(* that walks through its awaited store calls; every store call that is    *)
(* not inside a transaction commits on its own, and a transaction reads    *)
(* from the snapshot taken at its first SELECT and publishes its writes    *)
(* at commit (InnoDB REPEATABLE READ, non-locking reads).                  *)
(***************************************************************************)
EXTENDS Integers, Sequences, FiniteSets, TLC

\* ------------------------------------------------------------------ bounds
NumProcs == 2        \* request handlers that may be in flight together
MaxOrders == 2       \* orders ever created
MaxPayments == 2     \* payment rows ever created
MaxNotifications == 2 \* notifications that reach a payment row
MaxAttempts == 10    \* order-number candidates tried by createOrder

Procs == 1..NumProcs

Undefined == "undefined"   \* a field the request body does not carry
Null == "null"             \* SQL NULL
NullDate == 0 - 1          \* SQL NULL in a DATETIME column (every date is >= 0)

\* ------------------------------------------------------------ fixed data
Users == {"u1", "u2"}
Products == {"p1", "p2", "p3"}
ProductNames == [p1 |-> "Food", p2 |-> "Toy", p3 |-> "Leash"]
ProductSkus == [p1 |-> "SKU1", p2 |-> "SKU2", p3 |-> "SKU3"]

\* addresses table: 1 and 3 belong to u1 (3 is inactive), 2 belongs to u2
Addresses ==
  { [id |-> 1, user_id |-> "u1", is_active |-> TRUE],
    [id |-> 2, user_id |-> "u2", is_active |-> TRUE],
    [id |-> 3, user_id |-> "u1", is_active |-> FALSE] }

OrderStatuses == {"pending", "confirmed", "processing", "shipped", "delivered", "cancelled"}
OrderPaymentStatuses == {"pending", "paid", "failed", "refunded"}
PaymentStatuses == {"pending", "settlement", "capture", "cancel", "deny", "expire",
                    "failure", "refund", "partial_refund"}
PaymentMethods == {"midtrans", "bank_transfer", "credit_card", "ewallet"}
FraudStatuses == {"accept", "challenge", "deny"}
OrderNumbers == {"ORD-1", "ORD-2"}

\* ----------------------------------------------------------------- state
VARIABLES
  products,   \* products table: product -> [price, stock_quantity, is_active]
  cart,       \* cart table: set of rows [id, user_id, product_id, quantity, deleted_at]
  orders,     \* orders table: sequence of rows, id = position
  payments,   \* payments table: sequence of rows, id = position
  shipments,  \* shipments table: sequence of rows, id = position
  now,        \* wall clock read by new Date()
  gateway,    \* order numbers the payment gateway holds a transaction for
  pc,         \* per handler process: the await it is suspended at
  loc,        \* per handler process: its local variables
  resp,       \* per handler process: the response it is sending
  received,   \* history: the notifications that resolved to a payment, in arrival order
  history,    \* history: per order, the stock right before its checkout committed and
              \*          whether no other operation has moved that stock since
  limits,     \* the load of the scenario under study (never changes)
  transactions \* per handler process: "open" while the store transaction its
              \*   request began is neither committed nor rolled back

vars == <<products, cart, orders, payments, shipments, now, gateway, pc, loc, resp,
          received, history, limits, transactions>>
store == <<products, cart, orders, payments, shipments>>
aux == <<now, gateway, received, history, limits, transactions>>
\* what a step of createOrder or cancelOrder leaves alone besides the store
\* when it only opens or ends its transaction
rest == <<now, gateway, received, history, limits>>

NoLocal == [op |-> "none"]
NoResponse == [op |-> "none", code |-> 0, msg |-> "none", req |-> <<>>]
Response(op, code, msg, req) == [op |-> op, code |-> code, msg |-> msg, req |-> req]

InitProducts ==
  [p \in Products |->
     CASE p = "p1" -> [price |-> 100000, stock_quantity |-> 3, is_active |-> TRUE]
       [] p = "p2" -> [price |-> 50000, stock_quantity |-> 1, is_active |-> TRUE]
       [] OTHER    -> [price |-> 20000, stock_quantity |-> 1, is_active |-> FALSE]]

\* u1 holds lines 1 (p1 x 2), 2 (p2 x 1) and 4 (p3, deactivated after it was
\* added); u2 holds line 3 (p1 x 2).
InitCart ==
  { [id |-> 1, user_id |-> "u1", product_id |-> "p1", quantity |-> 2, deleted_at |-> Null],
    [id |-> 2, user_id |-> "u1", product_id |-> "p2", quantity |-> 1, deleted_at |-> Null],
    [id |-> 3, user_id |-> "u2", product_id |-> "p1", quantity |-> 2, deleted_at |-> Null],
    [id |-> 4, user_id |-> "u1", product_id |-> "p3", quantity |-> 1, deleted_at |-> Null] }

\* the empty shop with filled carts, about to serve the load lim
InitWith(lim) ==
  /\ limits = lim
  /\ received = <<>>
  /\ history = <<>>
  /\ products = InitProducts
  /\ cart = InitCart
  /\ orders = <<>>
  /\ payments = <<>>
  /\ shipments = <<>>
  /\ now = 0
  /\ gateway = {}
  /\ pc = [p \in Procs |-> "idle"]
  /\ loc = [p \in Procs |-> NoLocal]
  /\ resp = [p \in Procs |-> NoResponse]
  /\ transactions = [p \in Procs |-> "none"]

\* ------------------------------------------------------------- helpers
RECURSIVE SeqOfSet(_)
\* rows of a result set in primary-key order
SeqOfSet(S) ==
  IF S = {} THEN <<>>
  ELSE LET m == CHOOSE r \in S : \A q \in S : r.id <= q.id
       IN <<m>> \o SeqOfSet(S \ {m})

RECURSIVE SumSeq(_, _)
SumSeq(f(_), s) == IF s = <<>> THEN 0 ELSE f(Head(s)) + SumSeq(f, Tail(s))

Range(s) == {s[i] : i \in DOMAIN s}

\* res.status(code).json(...): the handler ends and its response is on the wire
Finish(p, r) ==
  /\ pc' = [pc EXCEPT ![p] = "done"]
  /\ loc' = [loc EXCEPT ![p] = NoLocal]
  /\ resp' = [resp EXCEPT ![p] = r]

Goto(p, label, l) ==
  /\ pc' = [pc EXCEPT ![p] = label]
  /\ loc' = [loc EXCEPT ![p] = l]
  /\ UNCHANGED resp

\* sequelize.transaction() / transaction.commit() / transaction.rollback()
Transaction(p, state) == transactions' = [transactions EXCEPT ![p] = state]

AllIdle == \A p \in Procs : pc[p] = "idle"

\* A response is handed to the client as soon as the handler produces it: no
\* other handler step is scheduled between res.json() and the end of the request.
NoneResponding == \A p \in Procs : pc[p] # "done"

\* a new request is served by the first free handler process (which process
\* serves it makes no difference to the store)
CanStart(p) ==
  /\ pc[p] = "idle"
  /\ p <= limits.procs
  /\ NoneResponding
  /\ \A q \in Procs : q < p => pc[q] # "idle"

\* the client has received the response; the process is free again
EndRequest(p) ==
  /\ pc[p] = "done"
  /\ pc' = [pc EXCEPT ![p] = "idle"]
  /\ resp' = [resp EXCEPT ![p] = NoResponse]
  /\ transactions' = [transactions EXCEPT ![p] = "none"]
  /\ UNCHANGED <<store, rest, loc>>

\* ============================================================ createOrder
LiveCart == {c \in cart : c.deleted_at = Null}
\* mutant: neither the lookup nor the unique index sees the existing numbers
UsedOrderNumbers_None == {}
\* the order numbers Order.findOne({order_number}) and the unique index find
UsedOrderNumbers == {orders[i].order_number : i \in DOMAIN orders}

\* Cart.findAll(... include Product): the caller's live lines, each joined with
\* its product row as the transaction's snapshot shows it
CartItemsOf(user, cart_item_ids) ==
  LET rows == IF cart_item_ids # {}
              THEN {c \in LiveCart : c.id \in cart_item_ids /\ c.user_id = user}
              ELSE {c \in LiveCart : c.user_id = user}
  IN SeqOfSet({ [id |-> c.id, product_id |-> c.product_id, quantity |-> c.quantity,
                 product |-> products[c.product_id]] : c \in rows })

RECURSIVE FirstRejection_NoStockCheck(_)
\* mutant: the validation loop forgets the stock comparison
FirstRejection_NoStockCheck(items) ==
  IF items = <<>> THEN "none"
  ELSE IF ~Head(items).product.is_active THEN "unavailable"
  ELSE FirstRejection_NoStockCheck(Tail(items))

RECURSIVE FirstRejection_IgnoreInactive(_)
\* mutant: the validation loop forgets the is_active flag
FirstRejection_IgnoreInactive(items) ==
  IF items = <<>> THEN "none"
  ELSE IF Head(items).product.stock_quantity < Head(items).quantity THEN "insufficient"
  ELSE FirstRejection_IgnoreInactive(Tail(items))

RECURSIVE FirstRejection(_)
\* the validation loop: the first line that makes the handler return, or "none"
FirstRejection(items) ==
  IF items = <<>> THEN "none"
  ELSE LET ci == Head(items) IN
       IF ~ci.product.is_active THEN "unavailable"
       ELSE IF ci.product.stock_quantity < ci.quantity THEN "insufficient"
       ELSE FirstRejection(Tail(items))

LinePrice(ci) == ci.product.price * ci.quantity
Subtotal(items) == SumSeq(LinePrice, items)

\* generateOrderNumber() draws ORD-<ms>-<rnd>; the loop keeps the first of at
\* most MaxAttempts candidates that no existing order carries.  Every unused
\* number can be the result; "exhausted" needs MaxAttempts colliding draws,
\* which the used numbers (if any) can supply.
GenerateOutcomes(used) ==
  (OrderNumbers \ used) \cup (IF used # {} /\ MaxAttempts >= 1 THEN {"exhausted"} ELSE {})

OrdersInFlight == Cardinality({q \in Procs : pc[q] = "co_write"})

createOrder_Begin(p, requests) ==
  \* the transaction is opened first; every rejection but the validation one
  \* rolls it back before it answers
  /\ CanStart(p)
  /\ \E req \in requests :
       LET user == req.user
           items == CartItemsOf(user, req.cart_item_ids)
           rejection == FirstRejection(items)
       IN
       IF ~req.valid
       THEN \* validationResult: returns with the transaction still open
            Finish(p, Response("createOrder", 400, "validation", req))
            /\ Transaction(p, "open") /\ UNCHANGED <<store, rest>>
       ELSE IF ~\E a \in Addresses : a.id = req.address_id /\ a.user_id = user /\ a.is_active
       THEN Finish(p, Response("createOrder", 404, "address", req)) /\ UNCHANGED <<store, aux>>
       ELSE IF items = <<>>
       THEN Finish(p, Response("createOrder", 400, "empty", req)) /\ UNCHANGED <<store, aux>>
       ELSE IF rejection # "none"
       THEN Finish(p, Response("createOrder", 400, rejection, req)) /\ UNCHANGED <<store, aux>>
       ELSE \E n \in GenerateOutcomes(UsedOrderNumbers) :
              IF n = "exhausted"
              THEN Finish(p, Response("createOrder", 500, "order_number", req))
                   /\ UNCHANGED <<store, aux>>
              ELSE /\ Len(orders) + OrdersInFlight < limits.orders
                   /\ Goto(p, "co_write",
                           [op |-> "createOrder", req |-> req, items |-> items,
                            subtotal |-> Subtotal(items), order_number |-> n])
                   /\ Transaction(p, "open") /\ UNCHANGED <<store, rest>>

RECURSIVE ReduceStock(_, _)
\* product.update({stock_quantity: product.stock_quantity - cartItem.quantity}),
\* line by line, from the values the handler read
ReduceStock(prods, items) ==
  IF items = <<>> THEN prods
  ELSE LET ci == Head(items) IN
       ReduceStock([prods EXCEPT ![ci.product_id].stock_quantity =
                                   ci.product.stock_quantity - ci.quantity],
                   Tail(items))

OrderItemOf(ci) ==
  [product_id |-> ci.product_id, quantity |-> ci.quantity,
   unit_price |-> ci.product.price, total_price |-> ci.product.price * ci.quantity,
   product_name |-> ProductNames[ci.product_id], product_sku |-> ProductSkus[ci.product_id]]

NewOrder(l) ==
  [ order_number |-> l.order_number, user_id |-> l.req.user, address_id |-> l.req.address_id,
    status |-> "pending", payment_status |-> "pending",
    subtotal |-> l.subtotal, shipping_cost |-> 0, tax_amount |-> 0, discount_amount |-> 0,
    total_amount |-> l.subtotal + 0 + 0 - 0,
    items |-> [i \in DOMAIN l.items |-> OrderItemOf(l.items[i])] ]

\* mutant: the checkout clears the caller's whole cart
DestroyCart_WholeCart(ids, user) ==
  {IF c.user_id = user /\ c.deleted_at = Null
   THEN [c EXCEPT !.deleted_at = "set"] ELSE c : c \in cart}

\* Cart.destroy on a paranoid model stamps deleted_at
DestroyCart(ids, user) ==
  {IF c.id \in ids /\ c.user_id = user /\ c.deleted_at = Null
   THEN [c EXCEPT !.deleted_at = "set"] ELSE c : c \in cart}

StockOf(prods) == [x \in Products |-> prods[x].stock_quantity]
ItemProducts(items) == {items[i].product_id : i \in DOMAIN items}

\* history: an operation that writes the stock of the products ps disturbs every
\* earlier order that holds one of them
Disturb(h, ps) ==
  [i \in DOMAIN h |->
     IF ItemProducts(orders[i].items) \cap ps # {} THEN [h[i] EXCEPT !.clean = FALSE] ELSE h[i]]

createOrder_Commit(p) ==
  /\ pc[p] = "co_write" /\ NoneResponding
  /\ LET l == loc[p] IN
     IF l.order_number \in UsedOrderNumbers
        \/ \E i \in DOMAIN l.items :
               l.items[i].product.stock_quantity - l.items[i].quantity < 0
     THEN \* unique index on order_number / validate min 0: the catch block rolls back
          Finish(p, Response("createOrder", 500, "failed", l.req))
          /\ Transaction(p, "none") /\ UNCHANGED <<store, rest>>
     ELSE /\ orders' = Append(orders, NewOrder(l))
          /\ products' = ReduceStock(products, l.items)
          /\ cart' = DestroyCart({l.items[i].id : i \in DOMAIN l.items}, l.req.user)
          /\ history' = Append(Disturb(history, ItemProducts(l.items)),
                                [before |-> StockOf(products), clean |-> TRUE])
          /\ Finish(p, Response("createOrder", 201, "created", l.req))
          /\ Transaction(p, "none")
          /\ UNCHANGED <<payments, shipments, now, gateway, received, limits>>

\* any store call inside the transaction throws (deadlock victim, lost
\* connection): the catch block rolls back and answers 500
createOrder_Error(p) ==
  /\ pc[p] = "co_write" /\ NoneResponding
  /\ Finish(p, Response("createOrder", 500, "failed", loc[p].req))
  /\ Transaction(p, "none") /\ UNCHANGED <<store, rest>>

\* ============================================================ cancelOrder
\* a cancelOrder transaction holds the row lock of its order from its UPDATE
\* until it commits; other writers of that row wait
OrderLocked(id) == \E q \in Procs : pc[q] = "ca_commit" /\ loc[q].order_id = id

cancelOrder_Find(p, requests) ==
  /\ CanStart(p)
  /\ UNCHANGED <<store, aux>>
  /\ \E req \in requests :
       IF ~req.valid
       THEN Finish(p, Response("cancelOrder", 400, "validation", req))
       ELSE IF ~(req.id \in DOMAIN orders /\ orders[req.id].user_id = req.user)
       THEN Finish(p, Response("cancelOrder", 404, "order", req))
       ELSE IF orders[req.id].status \notin {"pending", "confirmed"}
       THEN Finish(p, Response("cancelOrder", 400, "invalid_state", req))
       ELSE Goto(p, "ca_begin",
                 [op |-> "cancelOrder", req |-> req, order_id |-> req.id,
                  payment_status |-> orders[req.id].payment_status,
                  items |-> orders[req.id].items])

\* sequelize.transaction(); order.update({status: 'cancelled'}) takes the row
\* lock; the first Product.findByPk fixes the snapshot the restock reads from
cancelOrder_Update(p) ==
  /\ pc[p] = "ca_begin" /\ NoneResponding
  /\ ~OrderLocked(loc[p].order_id)
  /\ Goto(p, "ca_commit", [loc[p] EXCEPT !.op = "cancelOrder"] @@ [stock |-> StockOf(products)])
  /\ Transaction(p, "open") /\ UNCHANGED <<store, rest>>

RECURSIVE RestoreStock_OnePerLine(_, _)
\* mutant: the restock adds one unit per line instead of the line's quantity
RestoreStock_OnePerLine(stock, items) ==
  IF items = <<>> THEN stock
  ELSE RestoreStock_OnePerLine([stock EXCEPT ![Head(items).product_id] = @ + 1], Tail(items))

RECURSIVE RestoreStock(_, _)
\* product.update({stock_quantity: product.stock_quantity + orderItem.quantity})
\* item by item; a read inside the transaction sees the transaction's own writes
RestoreStock(stock, items) ==
  IF items = <<>> THEN stock
  ELSE LET it == Head(items) IN
       RestoreStock([stock EXCEPT ![it.product_id] = @ + it.quantity], Tail(items))

\* mutant: the cancellation marks the payment failed whatever it was
CancelledOrder_AlwaysFailed(o, read_payment_status) ==
  [o EXCEPT !.status = "cancelled", !.payment_status = "failed"]

\* order.update({payment_status: 'failed'}) when the order read before the
\* transaction showed payment_status pending
CancelledOrder(o, read_payment_status) ==
  [o EXCEPT !.status = "cancelled",
            !.payment_status = IF read_payment_status = "pending" THEN "failed" ELSE @]

cancelOrder_Commit(p) ==
  /\ pc[p] = "ca_commit" /\ NoneResponding
  /\ LET l == loc[p]
         restored == RestoreStock(l.stock, l.items)
         touched == ItemProducts(l.items)
     IN /\ history' = [i \in DOMAIN history |->
                         IF i = l.order_id THEN history[i] ELSE Disturb(history, touched)[i]]
        /\ orders' = [orders EXCEPT ![l.order_id] = CancelledOrder(@, l.payment_status)]
        /\ products' = [x \in Products |->
                          IF x \in touched
                          THEN [products[x] EXCEPT !.stock_quantity = restored[x]]
                          ELSE products[x]]
        /\ Finish(p, Response("cancelOrder", 200, "cancelled", l.req))
  /\ Transaction(p, "none")
  /\ UNCHANGED <<cart, payments, shipments, now, gateway, received, limits>>

\* a store call of the transaction throws: rollback, rethrow, 500
cancelOrder_Error(p) ==
  /\ pc[p] = "ca_commit" /\ NoneResponding
  /\ Finish(p, Response("cancelOrder", 500, "failed", loc[p].req))
  /\ Transaction(p, "none") /\ UNCHANGED <<store, rest>>

\* ========================================================== createPayment
PaymentsInFlight == Cardinality({q \in Procs : pc[q] \in {"pay_gateway", "pay_create"}})

createPayment_Find(p, requests) ==
  /\ CanStart(p)
  /\ UNCHANGED <<store, aux>>
  /\ \E req \in requests :
       IF ~req.valid
       THEN Finish(p, Response("createPayment", 400, "validation", req))
       ELSE IF ~(req.order_id \in DOMAIN orders /\ orders[req.order_id].user_id = req.user)
       THEN Finish(p, Response("createPayment", 404, "order", req))
       ELSE IF \E i \in DOMAIN payments : payments[i].order_id = req.order_id
       THEN Finish(p, Response("createPayment", 409, "payment_exists", req))
       ELSE IF orders[req.order_id].status # "pending"
       THEN Finish(p, Response("createPayment", 400, "not_pending", req))
       ELSE /\ Len(payments) + PaymentsInFlight < limits.payments
            /\ Goto(p, "pay_gateway",
                    [op |-> "createPayment", req |-> req,
                     order_number |-> orders[req.order_id].order_number,
                     total_amount |-> orders[req.order_id].total_amount])

\* mutant: the Payment row is written before the gateway is asked and is left
\* behind when the gateway fails
createPayment_Gateway_KeepsRow(p) ==
  /\ pc[p] = "pay_gateway" /\ NoneResponding
  /\ UNCHANGED <<products, cart, orders, shipments, now, received, history, limits, transactions>>
  /\ \/ /\ gateway' = gateway \cup {loc[p].order_number}
        /\ Goto(p, "pay_create", loc[p])
        /\ UNCHANGED payments
     \/ /\ Finish(p, Response("createPayment", 500, "gateway", loc[p].req))
        /\ payments' = Append(payments,
              [order_id |-> loc[p].req.order_id, user_id |-> loc[p].req.user,
               status |-> "pending", midtrans_order_id |-> loc[p].order_number])
        /\ UNCHANGED gateway

\* createTransaction(): the gateway answers with a token or the call fails
createPayment_Gateway(p) ==
  /\ pc[p] = "pay_gateway" /\ NoneResponding
  /\ UNCHANGED <<store, now, received, history, limits, transactions>>
  /\ \/ /\ gateway' = gateway \cup {loc[p].order_number}
        /\ Goto(p, "pay_create", loc[p])
     \/ /\ Finish(p, Response("createPayment", 500, "gateway", loc[p].req))
        /\ UNCHANGED gateway

\* the notification fields a raw_response has not seen yet
NoNotification ==
  [order_id |-> Undefined, transaction_id |-> Undefined, transaction_status |-> Undefined,
   fraud_status |-> Undefined, payment_type |-> Undefined, signature_key |-> Undefined]

\* mutant: the row is stored without the gateway order id
NewPayment_NoOrderNumber(l) ==
  [ order_id |-> l.req.order_id, user_id |-> l.req.user, payment_method |-> "midtrans",
    amount |-> l.total_amount, status |-> "pending",
    midtrans_order_id |-> Null, midtrans_transaction_id |-> Null,
    fraud_status |-> Null, signature_key |-> Null,
    payment_date |-> NullDate, expiry_time |-> NullDate,
    raw_response |-> NoNotification,
    webhook_logs |-> <<>> ]

NewPayment(l) ==
  [ order_id |-> l.req.order_id, user_id |-> l.req.user, payment_method |-> "midtrans",
    amount |-> l.total_amount, status |-> "pending",
    midtrans_order_id |-> l.order_number, midtrans_transaction_id |-> Null,
    fraud_status |-> Null, signature_key |-> Null,
    payment_date |-> NullDate, expiry_time |-> NullDate,
    raw_response |-> NoNotification,
    webhook_logs |-> <<>> ]

createPayment_Create(p) ==
  /\ pc[p] = "pay_create" /\ NoneResponding
  /\ payments' = Append(payments, NewPayment(loc[p]))
  /\ Finish(p, Response("createPayment", 201, "created", loc[p].req))
  /\ UNCHANGED <<products, cart, orders, shipments, aux>>

\* ==================================================== midtransNotification
\* MySQL compares the INTEGER column payments.order_id with the string of the
\* notification by converting the string to a number: its leading digits, or 0
NumericValue(ref) ==
  CASE ref = "1" -> 1
    [] ref = "2" -> 2
    [] ref = "3" -> 3
    [] OTHER -> 0

\* where: { [Op.or]: [{order_id}, {midtrans_order_id: order_id},
\*                    {midtrans_transaction_id: transaction_id}] }
PaymentMatches(pm, n) ==
  \/ pm.order_id = NumericValue(n.order_id)
  \/ pm.midtrans_order_id = n.order_id
  \/ pm.midtrans_transaction_id = n.transaction_id

MatchingPayments(n) == {i \in DOMAIN payments : PaymentMatches(payments[i], n)}

\* the query builder refuses a where clause that holds an undefined value
WhereThrows(n) == n.order_id = Undefined \/ n.transaction_id = Undefined

midtransNotification_Find(p, notifications) ==
  /\ CanStart(p)
  /\ UNCHANGED <<store, now, gateway, history, limits, transactions>>
  /\ \E n \in notifications :
       IF WhereThrows(n)
       THEN Finish(p, Response("midtransNotification", 500, "failed", n)) /\ UNCHANGED received
       ELSE IF MatchingPayments(n) = {}
       THEN Finish(p, Response("midtransNotification", 404, "payment", n)) /\ UNCHANGED received
       ELSE \* findOne without ORDER BY: any matching row may come back
            \E i \in MatchingPayments(n) :
              /\ Len(received) < limits.notifications
              /\ received' = Append(received, n)
              /\ Goto(p, "wh_payment",
                      [op |-> "midtransNotification", req |-> n, payment_id |-> i,
                       payment |-> payments[i]])

\* a || b of JavaScript for a request field
OrElse(a, b) == IF a = Undefined THEN b ELSE a

\* { ...payment.raw_response, ...notification }
MergeResponse(old, n) == [f \in DOMAIN old |-> OrElse(n[f], old[f])]

\* the fields payment.update(updateData) writes, computed from the row
\* as the handler read it
UpdateData(pm, n, t) ==
  [ status |-> n.transaction_status,
    fraud_status |-> OrElse(n.fraud_status, pm.fraud_status),
    payment_method |-> OrElse(n.payment_type, pm.payment_method),
    midtrans_transaction_id |-> OrElse(n.transaction_id, pm.midtrans_transaction_id),
    signature_key |-> OrElse(n.signature_key, pm.signature_key),
    raw_response |-> MergeResponse(pm.raw_response, n),
    webhook_logs |-> Append(pm.webhook_logs, [received_at |-> t, notification |-> n]) ]

SetsPaymentDate_SettlementOnly(n) == n.transaction_status = "settlement"
SetsPaymentDate(n) == n.transaction_status \in {"capture", "settlement"}
SetsExpiryTime(n) == n.transaction_status = "expire"

\* the UPDATE is refused by an ENUM column given a value outside its list and
\* by the unique index on midtrans_transaction_id
UpdateRefused(id, u) ==
  \/ u.status \notin PaymentStatuses \cup {Undefined}
  \/ u.payment_method \notin PaymentMethods
  \/ u.fraud_status \notin FraudStatuses \cup {Null}
  \/ /\ u.midtrans_transaction_id # Null
     /\ \E j \in DOMAIN payments :
           j # id /\ payments[j].midtrans_transaction_id = u.midtrans_transaction_id

ApplyUpdate(row, u, n, t) ==
  [row EXCEPT !.status = IF u.status = Undefined THEN @ ELSE u.status,
              !.fraud_status = u.fraud_status,
              !.payment_method = u.payment_method,
              !.midtrans_transaction_id = u.midtrans_transaction_id,
              !.signature_key = u.signature_key,
              !.raw_response = u.raw_response,
              !.webhook_logs = u.webhook_logs,
              !.payment_date = IF SetsPaymentDate(n) THEN t ELSE @,
              !.expiry_time = IF SetsExpiryTime(n) THEN t ELSE @]

midtransNotification_UpdatePayment(p) ==
  /\ pc[p] = "wh_payment" /\ NoneResponding
  /\ LET l == loc[p]
         t == now + 1
         u == UpdateData(l.payment, l.req, t)
     IN /\ now' = t
        /\ IF UpdateRefused(l.payment_id, u)
           THEN Finish(p, Response("midtransNotification", 500, "failed", l.req)) /\ UNCHANGED payments
           ELSE /\ payments' = [payments EXCEPT ![l.payment_id] = ApplyUpdate(@, u, l.req, t)]
                /\ Goto(p, "wh_find_order", l)
  /\ UNCHANGED <<products, cart, orders, shipments, gateway, received, history, limits, transactions>>

\* Order.findByPk(payment.order_id)
midtransNotification_FindOrder(p) ==
  /\ pc[p] = "wh_find_order" /\ NoneResponding
  /\ UNCHANGED <<store, aux>>
  /\ LET l == loc[p] IN
     IF l.payment.order_id \in DOMAIN orders
     THEN Goto(p, "wh_order", l @@ [order |-> orders[l.payment.order_id]])
     ELSE Finish(p, Response("midtransNotification", 200, "processed", l.req))

\* the switch over transaction_status
NewPaymentStatus(transaction_status, order) ==
  CASE transaction_status \in {"settlement", "capture"} -> "paid"
    [] transaction_status = "pending" -> "pending"
    [] transaction_status \in {"cancel", "deny", "failure", "expire"} -> "failed"
    [] transaction_status \in {"refund", "partial_refund"} -> "refunded"
    [] OTHER -> order.payment_status

NewOrderStatus(transaction_status, order) ==
  CASE transaction_status \in {"settlement", "capture"} /\ order.status = "pending" -> "confirmed"
    [] transaction_status \in {"cancel", "deny", "failure", "expire"} /\ order.status = "pending"
         -> "cancelled"
    [] OTHER -> order.status

\* instance.update(values): an UPDATE of every named column, issued only when
\* some value differs from the instance as it was read
InstanceUpdate(row, read, values) ==
  IF \A f \in DOMAIN values : values[f] = read[f]
  THEN row
  ELSE [f \in DOMAIN row |-> IF f \in DOMAIN values THEN values[f] ELSE row[f]]

midtransNotification_UpdateOrder(p) ==
  /\ pc[p] = "wh_order" /\ NoneResponding
  /\ LET l == loc[p]
         id == l.payment.order_id
         values == [status |-> NewOrderStatus(l.req.transaction_status, l.order),
                    payment_status |-> NewPaymentStatus(l.req.transaction_status, l.order)]
     IN /\ ~OrderLocked(id)
        /\ orders' = [orders EXCEPT ![id] = InstanceUpdate(@, l.order, values)]
        /\ Finish(p, Response("midtransNotification", 200, "processed", l.req))
  /\ UNCHANGED <<products, cart, payments, shipments, aux>>

\* ============================================== createShipment / updateShipment
ShipmentStatuses == {"pending", "pickup", "in_transit", "delivered", "failed", "returned"}

createShipment_Find(p, requests) ==
  /\ CanStart(p)
  /\ UNCHANGED <<store, aux>>
  /\ \E req \in requests :
       IF ~req.valid
       THEN Finish(p, Response("createShipment", 400, "validation", req))
       ELSE IF req.order_id \notin DOMAIN orders
       THEN Finish(p, Response("createShipment", 404, "order", req))
       ELSE IF \E i \in DOMAIN shipments : shipments[i].order_id = req.order_id
       THEN Finish(p, Response("createShipment", 409, "shipment_exists", req))
       ELSE IF \E i \in DOMAIN shipments : shipments[i].tracking_number = req.tracking_number
       THEN Finish(p, Response("createShipment", 409, "tracking_exists", req))
       ELSE Goto(p, "sh_create",
                 [op |-> "createShipment", req |-> req, order |-> orders[req.order_id]])

\* Shipment.create, then order.update({status: 'processing'}) when the order
\* read at the start was confirmed
createShipment_Create(p) ==
  /\ pc[p] = "sh_create" /\ NoneResponding
  /\ LET l == loc[p] IN
     IF \E i \in DOMAIN shipments : shipments[i].tracking_number = l.req.tracking_number
     THEN \* unique index on tracking_number
          Finish(p, Response("createShipment", 500, "failed", l.req)) /\ UNCHANGED <<orders, shipments>>
     ELSE /\ shipments' = Append(shipments,
                 [order_id |-> l.req.order_id, tracking_number |-> l.req.tracking_number,
                  status |-> "pending"])
          /\ ~OrderLocked(l.req.order_id)
          /\ orders' = IF l.order.status = "confirmed"
                       THEN [orders EXCEPT ![l.req.order_id] =
                               InstanceUpdate(@, l.order, [status |-> "processing"])]
                       ELSE orders
          /\ Finish(p, Response("createShipment", 201, "created", l.req))
  /\ UNCHANGED <<products, cart, payments, aux>>

updateShipment_Find(p, requests) ==
  /\ CanStart(p)
  /\ UNCHANGED <<store, aux>>
  /\ \E req \in requests :
       IF ~req.valid
       THEN Finish(p, Response("updateShipment", 400, "validation", req))
       ELSE IF req.id \notin DOMAIN shipments
       THEN Finish(p, Response("updateShipment", 404, "shipment", req))
       ELSE Goto(p, "sh_update",
                 [op |-> "updateShipment", req |-> req, shipment |-> shipments[req.id],
                  order |-> orders[shipments[req.id].order_id]])

\* the order follows the shipment: delivered -> delivered, in_transit -> shipped
ShipmentOrderStatus(status, order) ==
  CASE status = "delivered" -> "delivered"
    [] status = "in_transit" -> "shipped"
    [] OTHER -> order.status

updateShipment_Update(p) ==
  /\ pc[p] = "sh_update" /\ NoneResponding
  /\ LET l == loc[p]
         oid == l.shipment.order_id
         moved == l.req.status # Undefined /\ l.req.status # l.shipment.status
     IN /\ ~OrderLocked(oid)
        /\ orders' = IF moved /\ l.req.status = "delivered"
                     THEN \* delivered_at: new Date() always differs, so the UPDATE is issued
                          [orders EXCEPT ![oid].status = "delivered"]
                     ELSE IF moved
                     THEN [orders EXCEPT ![oid] =
                             InstanceUpdate(@, l.order,
                                            [status |-> ShipmentOrderStatus(l.req.status, l.order)])]
                     ELSE orders
        /\ shipments' = [shipments EXCEPT ![l.req.id].status = OrElse(l.req.status, @)]
        /\ Finish(p, Response("updateShipment", 200, "updated", l.req))
  /\ UNCHANGED <<products, cart, payments, aux>>

\* ==================================== getOrder / getPayment / getPaymentByOrder
\* what a handler answers: status code, message and body
Answer(code, msg, body) == [code |-> code, msg |-> msg, body |-> body]

PaymentsOf(ps, order_id) == {ps[i] : i \in {j \in DOMAIN ps : ps[j].order_id = order_id}}

\* Order.findOne({id, user_id}) with the payment included
getOrder_View(os, ps, req) ==
  IF ~req.valid THEN Answer(400, "validation", Null)
  ELSE IF ~(req.id \in DOMAIN os /\ os[req.id].user_id = req.user)
  THEN Answer(404, "order", Null)
  ELSE Answer(200, "ok", [order |-> os[req.id], payment |-> PaymentsOf(ps, req.id)])

\* mutant: the payment is looked up by id alone
getPayment_View_AnyOwner(os, ps, req) ==
  IF ~req.valid THEN Answer(400, "validation", Null)
  ELSE IF req.id \notin DOMAIN ps
  THEN Answer(404, "payment", Null)
  ELSE Answer(200, "ok", [payment |-> ps[req.id], order |-> Null])

\* Payment.findOne({id, user_id}) with the order included
getPayment_View(os, ps, req) ==
  IF ~req.valid THEN Answer(400, "validation", Null)
  ELSE IF ~(req.id \in DOMAIN ps /\ ps[req.id].user_id = req.user)
  THEN Answer(404, "payment", Null)
  ELSE Answer(200, "ok",
              [payment |-> ps[req.id],
               order |-> IF ps[req.id].order_id \in DOMAIN os
                         THEN os[ps[req.id].order_id] ELSE Null])

\* Order.findOne({id: orderId, user_id}), then Payment.findOne({order_id})
getPaymentByOrder_View(os, ps, req) ==
  IF ~req.valid THEN Answer(400, "validation", Null)
  ELSE IF ~(req.id \in DOMAIN os /\ os[req.id].user_id = req.user)
  THEN Answer(404, "order", Null)
  ELSE IF PaymentsOf(ps, req.id) = {}
  THEN Answer(404, "payment", Null)
  ELSE Answer(200, "ok", [payment |-> PaymentsOf(ps, req.id)])

getOrder(p, requests) ==
  /\ CanStart(p)
  /\ UNCHANGED <<store, aux>>
  /\ \E req \in requests :
       LET v == getOrder_View(orders, payments, req)
       IN Finish(p, Response("getOrder", v.code, v.msg, req))

getPayment(p, requests) ==
  /\ CanStart(p)
  /\ UNCHANGED <<store, aux>>
  /\ \E req \in requests :
       LET v == getPayment_View(orders, payments, req)
       IN Finish(p, Response("getPayment", v.code, v.msg, req))

getPaymentByOrder(p, requests) ==
  /\ CanStart(p)
  /\ UNCHANGED <<store, aux>>
  /\ \E req \in requests :
       LET v == getPaymentByOrder_View(orders, payments, req)
       IN Finish(p, Response("getPaymentByOrder", v.code, v.msg, req))

\* ================================================================ requests
\* request bodies of POST /customer/orders
CreateOrderRequests ==
  [user : Users, valid : {TRUE}, address_id : {1, 2, 3},
   cart_item_ids : {{}, {1}, {1, 2}, {3}, {4}}]
  \cup [user : {"u1"}, valid : {FALSE}, address_id : {1}, cart_item_ids : {{}}]

\* request bodies of PUT /customer/orders/:id/cancel
CancelOrderRequests ==
  [user : Users, valid : {TRUE}, id : {1, 2, 3}]
  \cup [user : {"u1"}, valid : {FALSE}, id : {1}]

\* request bodies of POST /customer/payments
CreatePaymentRequests ==
  [user : Users, valid : {TRUE}, order_id : {1, 2, 3}]
  \cup [user : {"u1"}, valid : {FALSE}, order_id : {1}]

CreateShipmentRequests == [valid : {TRUE}, order_id : {1, 2}, tracking_number : {"T1"}]
UpdateShipmentRequests == [valid : {TRUE}, id : {1}, status : {Undefined, "in_transit", "delivered"}]

\* GET /customer/orders/:id, /customer/payments/:id, /customer/orders/:orderId/payment
ReadRequests ==
  [user : Users, valid : {TRUE}, id : {0, 1, 2}]
  \cup [user : {"u1"}, valid : {FALSE}, id : {0}]

\* bodies the webhook endpoint may receive
Notification(order_id, transaction_id, transaction_status, payment_type) ==
  [order_id |-> order_id, transaction_id |-> transaction_id,
   transaction_status |-> transaction_status, fraud_status |-> Undefined,
   payment_type |-> payment_type, signature_key |-> Undefined]

Notifications ==
  [order_id : {"ORD-1", "UNKNOWN", Undefined},
   transaction_id : {"t1", Undefined},
   transaction_status : PaymentStatuses,
   fraud_status : {Undefined},
   payment_type : {"credit_card", "gopay"},
   signature_key : {Undefined}]

\* the customers who buy: u1 buys line 1, u2 buys line 3 (both are p1 x 2)
BuyRequests ==
  { [user |-> "u1", valid |-> TRUE, address_id |-> 1, cart_item_ids |-> {1}],
    [user |-> "u2", valid |-> TRUE, address_id |-> 2, cart_item_ids |-> {3}] }
PayRequests == { [user |-> "u1", valid |-> TRUE, order_id |-> 1] }
CancelRequests == [user : {"u1"}, valid : {TRUE}, id : {1, 2}]
CoreNotifications ==
  { Notification("ORD-1", "t1", "settlement", Undefined),
    Notification("ORD-1", "t1", "expire", Undefined),
    Notification("ORD-2", "t1", "settlement", Undefined) }

\* two settlements that differ in transaction_id, and an expiry
RaceNotifications ==
  { Notification("ORD-1", "t1", "settlement", "credit_card"),
    Notification("ORD-1", "t2", "settlement", "credit_card"),
    Notification("ORD-1", "t1", "expire", "credit_card") }

\* ============================= addToCart / removeFromCart / clearCart
\* Cart.findOne({where: {user_id, product_id}}) on the paranoid model: the live
\* lines of the user for the product
LiveLines(rows, user, product_id) ==
  {c \in rows : c.user_id = user /\ c.product_id = product_id /\ c.deleted_at = Null}

\* the unique index on (user_id, product_id) covers soft-deleted rows too
CartIndexRefuses(rows, user, product_id) ==
  \E c \in rows : c.user_id = user /\ c.product_id = product_id

\* POST /cart (handled without another request in between)
addToCart(p, requests) ==
  /\ CanStart(p)
  /\ UNCHANGED <<products, orders, payments, shipments, aux>>
  /\ \E req \in requests :
       LET existing == LiveLines(cart, req.user, req.product_id) IN
       IF ~req.valid
       THEN Finish(p, Response("addToCart", 400, "validation", req)) /\ UNCHANGED cart
       ELSE IF req.product_id \notin Products
       THEN Finish(p, Response("addToCart", 404, "product", req)) /\ UNCHANGED cart
       ELSE IF ~products[req.product_id].is_active
       THEN Finish(p, Response("addToCart", 400, "unavailable", req)) /\ UNCHANGED cart
       ELSE IF products[req.product_id].stock_quantity < req.quantity
       THEN Finish(p, Response("addToCart", 400, "insufficient", req)) /\ UNCHANGED cart
       ELSE IF existing # {}
       THEN \E c \in existing :
              IF products[req.product_id].stock_quantity < c.quantity + req.quantity
              THEN Finish(p, Response("addToCart", 400, "insufficient", req)) /\ UNCHANGED cart
              ELSE /\ cart' = (cart \ {c}) \cup {[c EXCEPT !.quantity = @ + req.quantity]}
                   /\ Finish(p, Response("addToCart", 201, "updated", req))
       ELSE IF CartIndexRefuses(cart, req.user, req.product_id)
       THEN \* Cart.create throws: the catch block answers 500
            Finish(p, Response("addToCart", 500, "failed", req)) /\ UNCHANGED cart
       ELSE /\ cart' = cart \cup {[id |-> Cardinality(cart) + 1, user_id |-> req.user,
                                   product_id |-> req.product_id, quantity |-> req.quantity,
                                   deleted_at |-> Null]}
            /\ Finish(p, Response("addToCart", 201, "added", req))

\* DELETE /cart/:productId: cartItem.destroy() stamps deleted_at
removeFromCart(p, requests) ==
  /\ CanStart(p)
  /\ UNCHANGED <<products, orders, payments, shipments, aux>>
  /\ \E req \in requests :
       LET existing == LiveLines(cart, req.user, req.product_id) IN
       IF ~req.valid
       THEN Finish(p, Response("removeFromCart", 400, "validation", req)) /\ UNCHANGED cart
       ELSE IF existing = {}
       THEN Finish(p, Response("removeFromCart", 404, "cart_item", req)) /\ UNCHANGED cart
       ELSE \E c \in existing :
              /\ cart' = (cart \ {c}) \cup {[c EXCEPT !.deleted_at = "set"]}
              /\ Finish(p, Response("removeFromCart", 200, "removed", req))

\* DELETE /cart: Cart.destroy({where: {user_id}}) stamps every live line
clearCart(p, users) ==
  /\ CanStart(p)
  /\ UNCHANGED <<products, orders, payments, shipments, aux>>
  /\ \E user \in users :
       /\ cart' = {IF c.user_id = user /\ c.deleted_at = Null
                   THEN [c EXCEPT !.deleted_at = "set"] ELSE c : c \in cart}
       /\ Finish(p, Response("clearCart", 200, "cleared", [user |-> user]))

AddToCartRequests ==
  [user : Users, valid : {TRUE}, product_id : Products \cup {"p9"}, quantity : {1, 2}]
  \cup [user : {"u1"}, valid : {FALSE}, product_id : {"p1"}, quantity : {1}]
RemoveFromCartRequests ==
  [user : Users, valid : {TRUE}, product_id : Products]
  \cup [user : {"u1"}, valid : {FALSE}, product_id : {"p1"}]

\* ====================================================== syncPaymentStatus
\* what coreApi.transaction.status answers: the status the gateway holds and
\* whether it reports a settlement_time and a transaction_time
StatusResponses ==
  [transaction_status : PaymentStatuses,
   settlement_time : BOOLEAN,
   transaction_time : BOOLEAN]

\* Payment.findOne({where: {order_id: orderId}}) and the two rejections
syncPaymentStatus_Find(p, requests) ==
  /\ CanStart(p)
  /\ UNCHANGED <<store, aux>>
  /\ \E req \in requests :
       IF ~req.valid
       THEN Finish(p, Response("syncPaymentStatus", 400, "validation", req))
       ELSE IF PaymentsOf(payments, req.orderId) = {}
       THEN Finish(p, Response("syncPaymentStatus", 404, "payment", req))
       ELSE \E i \in {j \in DOMAIN payments : payments[j].order_id = req.orderId} :
              IF payments[i].payment_method # "midtrans" \/ payments[i].midtrans_transaction_id = Null
              THEN Finish(p, Response("syncPaymentStatus", 400, "not_midtrans", req))
              ELSE Goto(p, "sync_payment",
                        [op |-> "syncPaymentStatus", req |-> req, payment_id |-> i,
                         payment |-> payments[i]])

\* statusResponse.settlement_time || statusResponse.transaction_time || null
\* (t is the time the gateway reports)
SyncPaymentDate(r, t) ==
  IF r.settlement_time THEN t
  ELSE IF r.transaction_time THEN t
  ELSE NullDate

\* the gateway call, then payment.update(updateData)
syncPaymentStatus_UpdatePayment(p) ==
  /\ pc[p] = "sync_payment" /\ NoneResponding
  /\ UNCHANGED <<products, cart, orders, shipments, aux>>
  /\ LET l == loc[p] IN
     \/ \* the gateway call throws
        Finish(p, Response("syncPaymentStatus", 500, "midtrans", l.req)) /\ UNCHANGED payments
     \/ \E r \in StatusResponses :
          /\ payments' = [payments EXCEPT ![l.payment_id] =
                            [@ EXCEPT !.status = r.transaction_status,
                                      !.fraud_status = Null,
                                      !.payment_date = SyncPaymentDate(r, now),
                                      !.raw_response = [f \in DOMAIN @ |->
                                          IF f = "transaction_status" THEN r.transaction_status
                                          ELSE Undefined]]]
          /\ Goto(p, "sync_order", l @@ [status |-> r])

\* payment.order.update({payment_status}) for the paid and the failed statuses
SyncPaymentStatus(transaction_status, order) ==
  CASE transaction_status \in {"settlement", "capture"} -> "paid"
    [] transaction_status \in {"cancel", "deny", "expire", "failure"} -> "failed"
    [] OTHER -> order.payment_status

syncPaymentStatus_UpdateOrder(p) ==
  /\ pc[p] = "sync_order" /\ NoneResponding
  /\ UNCHANGED <<products, cart, payments, shipments, aux>>
  /\ LET l == loc[p]
         id == l.payment.order_id
     IN /\ ~OrderLocked(id)
        /\ orders' = [orders EXCEPT ![id].payment_status =
                        SyncPaymentStatus(l.status.transaction_status, orders[id])]
        /\ Finish(p, Response("syncPaymentStatus", 200, "synchronized", l.req))

SyncRequests == [valid : {TRUE, FALSE}, orderId : {1, 2}]
\* what the gateway sends about ORD-1 when the customer pays by a method it
\* does not name
SyncNotifications ==
  { Notification("ORD-1", "t1", ts, Undefined) : ts \in {"pending", "settlement", "expire", "refund"} }

\* ========================================================== specifications
\* the whole system, handlers interleaving
Init == InitWith([procs |-> NumProcs, orders |-> MaxOrders, payments |-> MaxPayments,
                  notifications |-> MaxNotifications])

Next ==
  \E p \in Procs :
     \/ createOrder_Begin(p, BuyRequests)
     \/ createOrder_Commit(p)
     \/ createOrder_Error(p)
     \/ cancelOrder_Find(p, CancelRequests)
     \/ cancelOrder_Update(p)
     \/ cancelOrder_Commit(p)
     \/ cancelOrder_Error(p)
     \/ createPayment_Find(p, PayRequests)
     \/ createPayment_Gateway(p)
     \/ createPayment_Create(p)
     \/ midtransNotification_Find(p, CoreNotifications)
     \/ midtransNotification_UpdatePayment(p)
     \/ midtransNotification_FindOrder(p)
     \/ midtransNotification_UpdateOrder(p)
     \/ EndRequest(p)

Spec == Init /\ [][Next]_vars

\* concurrent checkouts only
InitCheckout == InitWith([procs |-> NumProcs, orders |-> MaxOrders, payments |-> 0,
                          notifications |-> 0])

NextCheckout ==
  \E p \in Procs :
     \/ createOrder_Begin(p, CreateOrderRequests)
     \/ createOrder_Commit(p)
     \/ createOrder_Error(p)
     \/ EndRequest(p)

SpecCheckout == InitCheckout /\ [][NextCheckout]_vars

\* one request at a time, every operation, no store failure
InitSeq == InitWith([procs |-> 1, orders |-> MaxOrders, payments |-> MaxPayments,
                     notifications |-> MaxNotifications])

NextSeq ==
  \E p \in Procs :
     \/ createOrder_Begin(p, CreateOrderRequests)
     \/ createOrder_Commit(p)
     \/ cancelOrder_Find(p, CancelOrderRequests)
     \/ cancelOrder_Update(p)
     \/ cancelOrder_Commit(p)
     \/ createPayment_Find(p, CreatePaymentRequests)
     \/ createPayment_Gateway(p)
     \/ createPayment_Create(p)
     \/ midtransNotification_Find(p, CoreNotifications)
     \/ midtransNotification_UpdatePayment(p)
     \/ midtransNotification_FindOrder(p)
     \/ midtransNotification_UpdateOrder(p)
     \/ createShipment_Find(p, CreateShipmentRequests)
     \/ createShipment_Create(p)
     \/ updateShipment_Find(p, UpdateShipmentRequests)
     \/ updateShipment_Update(p)
     \/ EndRequest(p)

SpecSeq == InitSeq /\ [][NextSeq]_vars

\* one request at a time, every body the webhook endpoint may receive
NextWebhook ==
  \E p \in Procs :
     \/ createOrder_Begin(p, BuyRequests)
     \/ createOrder_Commit(p)
     \/ cancelOrder_Find(p, CancelRequests)
     \/ cancelOrder_Update(p)
     \/ cancelOrder_Commit(p)
     \/ createPayment_Find(p, PayRequests)
     \/ createPayment_Gateway(p)
     \/ createPayment_Create(p)
     \/ midtransNotification_Find(p, Notifications)
     \/ midtransNotification_UpdatePayment(p)
     \/ midtransNotification_FindOrder(p)
     \/ midtransNotification_UpdateOrder(p)
     \/ EndRequest(p)

SpecWebhook == InitSeq /\ [][NextWebhook]_vars

\* one request at a time, both customers reading and writing orders and payments
NextAccess ==
  \E p \in Procs :
     \/ createOrder_Begin(p, CreateOrderRequests)
     \/ createOrder_Commit(p)
     \/ cancelOrder_Find(p, CancelOrderRequests)
     \/ cancelOrder_Update(p)
     \/ cancelOrder_Commit(p)
     \/ createPayment_Find(p, CreatePaymentRequests)
     \/ createPayment_Gateway(p)
     \/ createPayment_Create(p)
     \/ midtransNotification_Find(p, CoreNotifications)
     \/ midtransNotification_UpdatePayment(p)
     \/ midtransNotification_FindOrder(p)
     \/ midtransNotification_UpdateOrder(p)
     \/ getOrder(p, ReadRequests)
     \/ getPayment(p, ReadRequests)
     \/ getPaymentByOrder(p, ReadRequests)
     \/ EndRequest(p)

SpecAccess == InitSeq /\ [][NextAccess]_vars

\* one order, one payment, notifications racing on it
InitRace == InitWith([procs |-> NumProcs, orders |-> 1, payments |-> 1,
                      notifications |-> MaxNotifications])

NextRace ==
  \E p \in Procs :
     \/ createOrder_Begin(p, BuyRequests)
     \/ createOrder_Commit(p)
     \/ createPayment_Find(p, PayRequests)
     \/ createPayment_Gateway(p)
     \/ createPayment_Create(p)
     \/ midtransNotification_Find(p, RaceNotifications)
     \/ midtransNotification_UpdatePayment(p)
     \/ midtransNotification_FindOrder(p)
     \/ midtransNotification_UpdateOrder(p)
     \/ EndRequest(p)

SpecRace == InitRace /\ [][NextRace]_vars

\* one request at a time, the webhook and the admin sync on one order
NextSync ==
  \E p \in Procs :
     \/ createOrder_Begin(p, BuyRequests)
     \/ createOrder_Commit(p)
     \/ createPayment_Find(p, PayRequests)
     \/ createPayment_Gateway(p)
     \/ createPayment_Create(p)
     \/ midtransNotification_Find(p, SyncNotifications)
     \/ midtransNotification_UpdatePayment(p)
     \/ midtransNotification_FindOrder(p)
     \/ midtransNotification_UpdateOrder(p)
     \/ syncPaymentStatus_Find(p, SyncRequests)
     \/ syncPaymentStatus_UpdatePayment(p)
     \/ syncPaymentStatus_UpdateOrder(p)
     \/ EndRequest(p)

SpecSync == InitSeq /\ [][NextSync]_vars

\* one request at a time, customers filling, emptying and buying their carts
NextCart ==
  \E p \in Procs :
     \/ addToCart(p, AddToCartRequests)
     \/ removeFromCart(p, RemoveFromCartRequests)
     \/ clearCart(p, Users)
     \/ createOrder_Begin(p, BuyRequests)
     \/ createOrder_Commit(p)
     \/ EndRequest(p)

SpecCart == InitSeq /\ [][NextCart]_vars

\* ================================================================== claims
\* what a request of createOrder selects, read off the tables
SelectedLines(req) ==
  {c \in cart : /\ c.deleted_at = Null
                /\ c.user_id = req.user
                /\ (req.cart_item_ids = {} \/ c.id \in req.cart_item_ids)}

AddressUsable(req) ==
  \E a \in Addresses : a.id = req.address_id /\ a.user_id = req.user /\ a.is_active

Overdrawn(req) ==
  \E c \in SelectedLines(req) : products[c.product_id].stock_quantity < c.quantity

RECURSIVE OrderedQuantity(_, _)
\* the quantity of product x that the orders os reserved
OrderedQuantity(os, x) ==
  IF os = <<>> THEN 0
  ELSE SumSeq(LAMBDA it : IF it.product_id = x THEN it.quantity ELSE 0, Head(os).items)
       + OrderedQuantity(Tail(os), x)

\* a createOrder handler answers in this step
CheckoutAnswers(p) == pc[p] # "done" /\ pc'[p] = "done" /\ resp'[p].op = "createOrder"

\* C1: once every checkout has been answered, each product's stock is its initial
\* stock minus the quantities of the checkouts that committed (so two racing
\* checkouts that together ask for more than there is cannot both commit).
C1_NoOversell ==
  AllIdle =>
    \A x \in Products :
      products[x].stock_quantity = InitProducts[x].stock_quantity - OrderedQuantity(orders, x)

\* C2: stock_quantity is never negative, and a checkout that asks for more of a
\* product than its stock_quantity is rejected and changes nothing.
C2_StockNeverNegative ==
  /\ [](\A x \in Products : products[x].stock_quantity >= 0)
  /\ [][\A p \in Procs :
          /\ (pc[p] = "idle" /\ pc'[p] = "co_write") => ~Overdrawn(loc'[p].req)
          /\ (pc[p] = "idle" /\ CheckoutAnswers(p) /\ Overdrawn(resp'[p].req))
                => (resp'[p].code \in {400, 404} /\ UNCHANGED store)]_vars

\* a checkout is turned down for lack of stock while an earlier order is being
\* cancelled and a notification has been taken in
C2_Witness ==
  \E p, q \in Procs :
     /\ pc[p] = "done" /\ resp[p].op = "createOrder" /\ resp[p].msg = "insufficient"
     /\ pc[q] = "ca_commit"
     /\ received # <<>>

\* C3: a checkout goes ahead only with a usable address, a non-empty selection,
\* active products and enough stock on every line, and is answered 400/404
\* otherwise; whenever a checkout is answered with anything but 201 the tables
\* are exactly as before.
CheckoutPreconditions(req) ==
  /\ req.valid
  /\ AddressUsable(req)
  /\ SelectedLines(req) # {}
  /\ \A c \in SelectedLines(req) :
        products[c.product_id].is_active /\ c.quantity <= products[c.product_id].stock_quantity

PaidFor == {"capture", "settlement"}
FailedFor == {"cancel", "deny", "failure", "expire"}
RefundedFor == {"refund", "partial_refund"}

TablePaymentStatus(ts) ==
  CASE ts \in PaidFor -> "paid"
    [] ts = "pending" -> "pending"
    [] ts \in FailedFor -> "failed"
    [] ts \in RefundedFor -> "refunded"

TableOrderStatus(ts, before) ==
  IF before = "pending" /\ ts \in PaidFor THEN "confirmed"
  ELSE IF before = "pending" /\ ts \in FailedFor THEN "cancelled"
  ELSE before

\* a midtransNotification handler that resolved to a Payment answers in this step
WebhookAnswers(p) ==
  pc[p] \in {"wh_payment", "wh_find_order", "wh_order"} /\ pc'[p] = "done"

NoneInFlight == \A p \in Procs : pc[p] \in {"idle", "done"}

\* C4: when the handler of a notification that resolved to a Payment answers,
\* Payment.status is the notification's transaction_status, Order.payment_status
\* is what the table gives for it, and Order.status moved to confirmed or
\* cancelled exactly when it was pending, and is unchanged otherwise.
C4_TransitionTable ==
  [][\A p \in Procs :
       (WebhookAnswers(p) /\ loc[p].req.transaction_status \in PaymentStatuses) =>
          LET id == loc[p].payment_id
              oid == payments[id].order_id
              ts == loc[p].req.transaction_status
          IN /\ payments'[id].status = ts
             /\ orders'[oid].payment_status = TablePaymentStatus(ts)
             /\ orders'[oid].status = TableOrderStatus(ts, orders[oid].status)]_vars

\* C5: when the handler of a notification identical to the one last processed
\* on the same Payment answers, it answers 200, Payment.status,
\* Order.payment_status and Order.status are as it found them, and the Payment
\* row differs from the row it found by one more log entry only.
C5_DuplicateIsNoOp ==
  [][\A p \in Procs :
       (/\ WebhookAnswers(p)
        /\ loc[p].payment.webhook_logs # <<>>
        /\ loc[p].payment.webhook_logs[Len(loc[p].payment.webhook_logs)].notification
             = loc[p].req) =>
          LET l == loc[p]
              id == l.payment_id
              oid == l.payment.order_id
          IN /\ resp'[p].code = 200
             /\ orders'[oid].status = orders[oid].status
             /\ orders'[oid].payment_status = orders[oid].payment_status
             /\ Len(payments'[id].webhook_logs) = Len(l.payment.webhook_logs) + 1
             /\ [payments'[id] EXCEPT !.webhook_logs = l.payment.webhook_logs] = l.payment
             /\ products' = products]_vars

\* C6: once two settlement notifications for the same order that differ in
\* transaction_id have both been answered, however their steps interleaved,
\* both answers are 200, Payment.status is settlement and the log holds two
\* entries.
C6_ConcurrentSettlements ==
  LET s1 == Notification("ORD-1", "t1", "settlement", "credit_card")
      s2 == Notification("ORD-1", "t2", "settlement", "credit_card")
  IN (NoneInFlight /\ received \in {<<s1, s2>>, <<s2, s1>>}) =>
        /\ \A p \in Procs : resp[p].op = "midtransNotification" => resp[p].code = 200
        /\ payments[1].status = "settlement"
        /\ Len(payments[1].webhook_logs) = 2

\* what two notifications leave behind on a pending order when the second is
\* processed after the first
SerialOutcome(a, b) ==
  <<b.transaction_status,
    TablePaymentStatus(b.transaction_status),
    TableOrderStatus(b.transaction_status, TableOrderStatus(a.transaction_status, "pending"))>>

\* C7: once two notifications for the same Payment have both been answered,
\* however their steps interleaved, Payment.status, Order.payment_status and
\* Order.status are what processing them one after the other gives, in one of
\* the two orders.
C7_SerialEquivalence ==
  (NoneInFlight /\ Len(received) = 2) =>
     <<payments[1].status, orders[1].payment_status, orders[1].status>>
        \in {SerialOutcome(received[1], received[2]), SerialOutcome(received[2], received[1])}

\* C8: a notification that matches no Payment, the one without order_id and
\* transaction_id included, is answered 404 and changes no table.
C8_UnmatchedIsNotFound ==
  [][\A p \in Procs :
       (/\ pc[p] = "idle" /\ pc'[p] = "done"
        /\ resp'[p].op = "midtransNotification"
        /\ MatchingPayments(resp'[p].req) = {}) =>
          (resp'[p].code = 404 /\ UNCHANGED store)]_vars

\* C9: cancelOrder goes ahead exactly for the caller's order in status pending
\* or confirmed, and then answers 200 with the order cancelled, every line's
\* quantity added back to its product and payment_status failed exactly when it
\* was pending; for any other status it answers 400 invalid-state and changes
\* no table.
C9_CancelContract ==
  [][\A p \in Procs :
       /\ (pc[p] = "idle" /\ pc'[p] = "ca_begin") =>
             LET req == loc'[p].req IN
             /\ req.id \in DOMAIN orders /\ orders[req.id].user_id = req.user
             /\ orders[req.id].status \in {"pending", "confirmed"}
       /\ (/\ pc[p] = "idle" /\ pc'[p] = "done" /\ resp'[p].op = "cancelOrder"
           /\ resp'[p].req.valid /\ resp'[p].req.id \in DOMAIN orders
           /\ orders[resp'[p].req.id].user_id = resp'[p].req.user) =>
             /\ orders[resp'[p].req.id].status \in {"processing", "shipped", "delivered", "cancelled"}
             /\ resp'[p].code = 400 /\ resp'[p].msg = "invalid_state"
             /\ UNCHANGED store
       /\ (pc[p] = "ca_commit" /\ pc'[p] = "done") =>
             LET id == loc[p].order_id IN
             /\ resp'[p].code = 200
             /\ orders[id].status \in {"pending", "confirmed"}
             /\ orders'[id].status = "cancelled"
             /\ orders'[id].payment_status =
                  (IF orders[id].payment_status = "pending" THEN "failed"
                   ELSE orders[id].payment_status)
             /\ \A j \in DOMAIN orders : j # id => orders'[j] = orders[j]
             /\ \A x \in Products :
                  products'[x].stock_quantity =
                    products[x].stock_quantity + OrderedQuantity(<<orders[id]>>, x)]_vars

\* a shipped or delivered order is refused cancellation
C9_Witness ==
  \E p \in Procs :
     /\ pc[p] = "done" /\ resp[p].op = "cancelOrder" /\ resp[p].msg = "invalid_state"
     /\ orders[resp[p].req.id].status \in {"shipped", "delivered"}
     /\ \E j \in DOMAIN orders : orders[j].status = "cancelled" /\ orders[j].payment_status = "paid"

\* C10: when an order is cancelled and no other operation wrote the stock of its
\* products since its checkout, every product's stock_quantity is back at its
\* value before the checkout, and each product gets back what the order's
\* lines reserved of it.
C10_CancelUndoesCheckout ==
  [][\A p \in Procs :
       (pc[p] = "ca_commit" /\ pc'[p] = "done" /\ history[loc[p].order_id].clean) =>
          LET id == loc[p].order_id IN
          \A x \in ItemProducts(orders[id].items) :
             /\ products'[x].stock_quantity = history[id].before[x]
             /\ products'[x].stock_quantity - products[x].stock_quantity
                  = OrderedQuantity(<<orders[id]>>, x)]_vars

\* a two-line order has been cancelled with nothing in between
C10_Witness ==
  \E p \in Procs :
     /\ pc[p] = "done" /\ resp[p].op = "cancelOrder" /\ resp[p].code = 200
     /\ history[resp[p].req.id].clean
     /\ Len(orders[resp[p].req.id].items) = 2

\* a createOrder handler commits in this step
CheckoutCommits(p) == pc[p] = "co_write" /\ pc'[p] = "done" /\ resp'[p].code = 201

\* C11: a checkout that answers 201 adds exactly one order, pending/pending,
\* with one line item per selected cart line carrying the product's name, sku
\* and price, total_amount the sum of unit_price x quantity plus shipping and
\* tax minus discount; each product's stock goes down by the quantity ordered
\* of it, the selected cart lines are deleted and every other cart line is as
\* it was.
C11_CheckoutPostcondition ==
  [][\A p \in Procs :
       CheckoutCommits(p) =>
          LET req == resp'[p].req
              lines == SelectedLines(req)
              o == orders'[Len(orders')]
          IN /\ Len(orders') = Len(orders) + 1
             /\ SubSeq(orders', 1, Len(orders)) = orders
             /\ o.user_id = req.user /\ o.address_id = req.address_id
             /\ o.status = "pending" /\ o.payment_status = "pending"
             /\ Len(o.items) = Cardinality(lines)
             /\ {<<o.items[i].product_id, o.items[i].quantity>> : i \in DOMAIN o.items}
                  = {<<c.product_id, c.quantity>> : c \in lines}
             /\ \A i \in DOMAIN o.items :
                  LET it == o.items[i] IN
                  /\ it.unit_price = products[it.product_id].price
                  /\ it.total_price = it.unit_price * it.quantity
                  /\ it.product_name = ProductNames[it.product_id]
                  /\ it.product_sku = ProductSkus[it.product_id]
             /\ o.total_amount =
                  SumSeq(LAMBDA it : it.unit_price * it.quantity, o.items)
                    + o.shipping_cost + o.tax_amount - o.discount_amount
             /\ \A x \in Products :
                  /\ products'[x].stock_quantity =
                       products[x].stock_quantity - OrderedQuantity(<<o>>, x)
                  /\ products'[x].price = products[x].price
                  /\ products'[x].is_active = products[x].is_active
             /\ cart' = {IF c \in lines THEN [c EXCEPT !.deleted_at = "set"] ELSE c : c \in cart}
             /\ \A c \in lines : c.deleted_at = Null]_vars

\* a two-line checkout has committed and the caller's unselected line is live
C11_Witness ==
  \E p \in Procs :
     /\ pc[p] = "done" /\ resp[p].op = "createOrder" /\ resp[p].code = 201
     /\ resp[p].req.cart_item_ids = {1, 2}
     /\ Len(orders[Len(orders)].items) = 2
     /\ \E c \in cart : c.id = 4 /\ c.user_id = resp[p].req.user /\ c.deleted_at = Null

\* a createPayment handler decides on a well-formed request in this step
PaymentDecides(p) ==
  /\ pc[p] = "idle"
  /\ \/ pc'[p] = "pay_gateway"
     \/ pc'[p] = "done" /\ resp'[p].op = "createPayment" /\ resp'[p].req.valid

PaymentRequest(p) == IF pc'[p] = "done" THEN resp'[p].req ELSE loc'[p].req

PaymentRejected(p, code, msg) ==
  /\ pc'[p] = "done" /\ resp'[p].code = code /\ resp'[p].msg = msg
  /\ UNCHANGED <<payments, gateway>>

OwnedOrder(req) == req.order_id \in DOMAIN orders /\ orders[req.order_id].user_id = req.user

HasPayment(id) == \E i \in DOMAIN payments : payments[i].order_id = id

\* C12: createPayment answers 404 for an order that is absent or not the
\* caller's, 409 for an order that has a Payment, and 400 invalid-state for
\* every order of the caller whose status is not pending; in each case the
\* gateway is not called and no Payment is created.
C12_PaymentRejections ==
  [][\A p \in Procs :
       PaymentDecides(p) =>
          LET req == PaymentRequest(p) IN
          /\ ~OwnedOrder(req) => PaymentRejected(p, 404, "order")
          /\ (OwnedOrder(req) /\ HasPayment(req.order_id))
                => PaymentRejected(p, 409, "payment_exists")
          /\ (OwnedOrder(req) /\ orders[req.order_id].status # "pending")
                => PaymentRejected(p, 400, "not_pending")]_vars

\* the gateway call of a createPayment handler fails in this step
GatewayFails(p) == pc[p] = "pay_gateway" /\ pc'[p] = "done"

\* C13: when the gateway call fails, createPayment answers with a failure, no
\* table changes, and the order still passes every local check of
\* createPayment: it is the caller's, pending and without a Payment.
C13_GatewayFailure ==
  [][\A p \in Procs :
       GatewayFails(p) =>
          LET req == loc[p].req IN
          /\ resp'[p].op = "createPayment" /\ resp'[p].code = 500
          /\ UNCHANGED store
          /\ req.order_id \in DOMAIN orders' /\ orders'[req.order_id].user_id = req.user
          /\ orders'[req.order_id].status = "pending"
          /\ \A i \in DOMAIN payments' : payments'[i].order_id # req.order_id]_vars

\* the gateway has failed for an order, which is still pending and unpaid
C13_Witness ==
  \E p \in Procs :
     /\ pc[p] = "done" /\ resp[p].op = "createPayment"
     /\ resp[p].code = 500 /\ resp[p].msg = "gateway"
     /\ orders[resp[p].req.order_id].status = "pending"
     /\ ~HasPayment(resp[p].req.order_id)

\* C14: however createPayment requests interleave, no order has more than one
\* Payment row.
C14_OnePaymentPerOrder ==
  \A i, j \in DOMAIN payments : payments[i].order_id = payments[j].order_id => i = j

\* C15: the payments table grows only by the last step of a createPayment
\* handler, for an order that is the caller's, pending and without a Payment,
\* after the gateway accepted the order number; the new row is pending, holds
\* the order's total_amount and order_number, and the order is as it was.
C15_PaymentCreation ==
  [][Len(payments') # Len(payments) =>
       \E p \in Procs :
          /\ pc[p] = "pay_create" /\ pc'[p] = "done"
          /\ resp'[p].op = "createPayment" /\ resp'[p].code = 201
          /\ LET req == resp'[p].req
                 row == payments'[Len(payments')]
             IN /\ Len(payments') = Len(payments) + 1
                /\ SubSeq(payments', 1, Len(payments)) = payments
                /\ OwnedOrder(req)
                /\ orders[req.order_id].status = "pending"
                /\ ~HasPayment(req.order_id)
                /\ orders[req.order_id].order_number \in gateway
                /\ row.order_id = req.order_id /\ row.user_id = req.user
                /\ row.status = "pending"
                /\ row.amount = orders[req.order_id].total_amount
                /\ row.midtrans_order_id = orders[req.order_id].order_number
                /\ orders' = orders]_vars

\* a Payment has been created for a two-line order
C15_Witness ==
  \E p \in Procs :
     /\ pc[p] = "done" /\ resp[p].op = "createPayment" /\ resp[p].code = 201
     /\ payments[Len(payments)].order_id = resp[p].req.order_id
     /\ Len(orders[resp[p].req.order_id].items) = 2

\* what cancelOrder and createPayment decide from the rows they look up
cancelOrder_View(os, req) ==
  IF ~req.valid THEN Answer(400, "validation", Null)
  ELSE IF ~(req.id \in DOMAIN os /\ os[req.id].user_id = req.user)
  THEN Answer(404, "order", Null)
  ELSE IF os[req.id].status \notin {"pending", "confirmed"}
  THEN Answer(400, "invalid_state", Null)
  ELSE Answer(200, "proceed", os[req.id])

createPayment_View(os, ps, req) ==
  IF ~req.valid THEN Answer(400, "validation", Null)
  ELSE IF ~(req.order_id \in DOMAIN os /\ os[req.order_id].user_id = req.user)
  THEN Answer(404, "order", Null)
  ELSE IF PaymentsOf(ps, req.order_id) # {}
  THEN Answer(409, "payment_exists", Null)
  ELSE IF os[req.order_id].status # "pending"
  THEN Answer(400, "not_pending", Null)
  ELSE Answer(200, "proceed", os[req.order_id])

\* stores that differ from the present one in the rows of users other than user
VaryOrder(row, k) ==
  CASE k = "same" -> row
    [] k = "gone" -> [row EXCEPT !.user_id = "nobody"]
    [] k = "other" -> [row EXCEPT !.status = "delivered", !.payment_status = "refunded"]

VaryPayment(row, k) ==
  CASE k = "same" -> row
    [] k = "gone" -> [row EXCEPT !.user_id = "nobody"]
    [] k = "other" -> [row EXCEPT !.status = "refund", !.midtrans_transaction_id = "tx"]

OrderVariants(os, user) ==
  { [i \in DOMAIN os |-> IF os[i].user_id = user THEN os[i] ELSE VaryOrder(os[i], k)] :
      k \in {"same", "gone", "other"} }

PaymentVariants(ps, user) ==
  { [i \in DOMAIN ps |-> IF ps[i].user_id = user THEN ps[i] ELSE VaryPayment(ps[i], k)] :
      k \in {"same", "gone", "other"} }

\* the answers a user gets to every request on an order or payment id
AnswersTo(os, ps, user) ==
  [id \in 0..(Len(os) + Len(ps) + 1) |->
     LET req == [user |-> user, valid |-> TRUE, id |-> id]
     IN <<getOrder_View(os, ps, req),
          getPayment_View(os, ps, req),
          getPaymentByOrder_View(os, ps, req),
          cancelOrder_View(os, req),
          createPayment_View(os, ps, [user |-> user, valid |-> TRUE, order_id |-> id])>>]

\* in this step the handler op answers the request with the answer v
Answered(p, op, v) ==
  resp'[p].op = op => (resp'[p].code = v.code /\ resp'[p].msg = v.msg)

\* C16: an order or payment of another user is answered exactly like an id that
\* does not exist, by getOrder, cancelOrder, createPayment, getPayment and
\* getPaymentByOrder, and such an answer changes no table; the answers a caller
\* gets do not depend on the orders and payments of other users.
C16_OwnerIsolation ==
  /\ [](\A user \in Users :
          /\ \A os2 \in OrderVariants(orders, user), ps2 \in PaymentVariants(payments, user) :
                AnswersTo(os2, ps2, user) = AnswersTo(orders, payments, user)
          /\ \A id \in DOMAIN orders :
                orders[id].user_id # user =>
                   /\ AnswersTo(orders, payments, user)[id][1] = AnswersTo(orders, payments, user)[0][1]
                   /\ AnswersTo(orders, payments, user)[id][3] = AnswersTo(orders, payments, user)[0][3]
                   /\ AnswersTo(orders, payments, user)[id][4] = AnswersTo(orders, payments, user)[0][4]
                   /\ AnswersTo(orders, payments, user)[id][5] = AnswersTo(orders, payments, user)[0][5]
          /\ \A id \in DOMAIN payments :
                payments[id].user_id # user =>
                   AnswersTo(orders, payments, user)[id][2] = AnswersTo(orders, payments, user)[0][2])
  /\ [][\A p \in Procs :
          (pc[p] = "idle" /\ pc'[p] = "done") =>
             LET req == resp'[p].req IN
             /\ Answered(p, "getOrder", getOrder_View(orders, payments, req))
             /\ Answered(p, "getPayment", getPayment_View(orders, payments, req))
             /\ Answered(p, "getPaymentByOrder", getPaymentByOrder_View(orders, payments, req))
             /\ Answered(p, "cancelOrder", cancelOrder_View(orders, req))
             /\ Answered(p, "createPayment", createPayment_View(orders, payments, req))
             /\ resp'[p].op \in {"getOrder", "getPayment", "getPaymentByOrder",
                                "cancelOrder", "createPayment"} => UNCHANGED store]_vars

\* a customer asks for the payment of another customer and is told not found
C16_Witness ==
  \E p \in Procs :
     /\ pc[p] = "done" /\ resp[p].op = "getPayment" /\ resp[p].code = 404
     /\ resp[p].req.id \in DOMAIN payments
     /\ payments[resp[p].req.id].user_id # resp[p].req.user
     /\ \E i, j \in DOMAIN orders : orders[i].user_id # orders[j].user_id

\* C17: the handler of a notification that resolved to a Payment answers 200,
\* whatever the notification carries and whatever the Payment and Order hold.
C17_ResolvedIsSuccess ==
  [][\A p \in Procs : WebhookAnswers(p) => resp'[p].code = 200]_vars

\* C18: when the handler of a notification that resolved to a Payment answers,
\* that Payment's notification log is the log the handler found, unaltered,
\* followed by exactly one entry that holds the raw notification.
C18_LogGrowsByOne ==
  [][\A p \in Procs :
       WebhookAnswers(p) =>
          LET l == loc[p]
              before == l.payment.webhook_logs
              after == payments'[l.payment_id].webhook_logs
          IN /\ Len(after) = Len(before) + 1
             /\ SubSeq(after, 1, Len(before)) = before
             /\ after[Len(after)].notification = l.req]_vars

\* the handler at p resolved to a pending Payment whose order is cancelled with
\* payment_status failed, as cancelOrder leaves an unpaid order
SettlesCancelled(p) ==
  /\ pc[p] \in {"wh_payment", "wh_find_order", "wh_order"}
  /\ loc[p].req.transaction_status = "settlement"
  /\ loc[p].payment.status = "pending"
  /\ loc[p].payment.order_id \in DOMAIN orders
  /\ orders[loc[p].payment.order_id].status = "cancelled"
  /\ orders[loc[p].payment.order_id].payment_status = "failed"

\* C19: a settlement notification for the pending Payment of an order its owner
\* cancelled is accepted: no step of its handler changes the stock, and when
\* the handler answers it answers 200, Payment.status is settlement,
\* Order.payment_status is paid and Order.status is still cancelled.
C19_SettlementAfterCancel ==
  [][\A p \in Procs :
       SettlesCancelled(p) =>
          /\ products' = products
          /\ WebhookAnswers(p) =>
                LET oid == loc[p].payment.order_id
                IN /\ resp'[p].code = 200
                   /\ payments'[loc[p].payment_id].status = "settlement"
                   /\ orders'[oid].payment_status = "paid"
                   /\ orders'[oid].status = "cancelled"]_vars

\* the handler at p resolved, for a pending notification, to a Payment it read
\* as settled, whose order is confirmed and paid
PendingAfterSettlement(p) ==
  /\ WebhookAnswers(p)
  /\ loc[p].req.transaction_status = "pending"
  /\ loc[p].payment.status = "settlement"
  /\ loc[p].payment.payment_date \in Nat
  /\ loc[p].payment.order_id \in DOMAIN orders
  /\ orders[loc[p].payment.order_id].status = "confirmed"
  /\ orders[loc[p].payment.order_id].payment_status = "paid"

\* C20: when the handler of a pending notification answers for a Payment that a
\* settlement notification had settled, Payment.status is back to pending and
\* Order.payment_status is back to pending, while Order.status is still
\* confirmed and payment_date is the date the settlement set.
C20_PendingAfterSettlement ==
  [][\A p \in Procs :
       PendingAfterSettlement(p) =>
          LET id == loc[p].payment_id
              oid == loc[p].payment.order_id
          IN /\ payments'[id].status = "pending"
             /\ orders'[oid].payment_status = "pending"
             /\ orders'[oid].status = "confirmed"
             /\ payments'[id].payment_date = loc[p].payment.payment_date]_vars

\* C21: no step of any operation changes the status of an order that is
\* delivered or cancelled.
C21_TerminalOrderStatus ==
  [][\A o \in DOMAIN orders :
       orders[o].status \in {"delivered", "cancelled"} =>
          orders'[o].status = orders[o].status]_vars

\* the admin sync at p answers success in this step
SyncAnswers(p) == pc[p] = "sync_order" /\ pc'[p] = "done"

\* C22: when syncPaymentStatus answers for a gateway-reported status,
\* Payment.status, Order.payment_status, Order.status and the presence of
\* payment_date are what the webhook handler leaves for a notification with
\* that transaction_status on the same Payment and Order.
C22_SyncEqualsWebhook ==
  [][\A p \in Procs :
       SyncAnswers(p) =>
          LET l == loc[p]
              id == l.payment_id
              oid == l.payment.order_id
              ts == l.status.transaction_status
              n == Notification(orders[oid].order_number, l.payment.midtrans_transaction_id,
                                ts, Undefined)
              viaWebhook == ApplyUpdate(l.payment, UpdateData(l.payment, n, now + 1), n, now + 1)
          IN /\ payments'[id].status = viaWebhook.status
             /\ orders'[oid].payment_status = NewPaymentStatus(ts, orders[oid])
             /\ orders'[oid].status = NewOrderStatus(ts, orders[oid])
             /\ (payments'[id].payment_date \in Nat) = (viaWebhook.payment_date \in Nat)]_vars

\* the Payments a notification resolves to by precedence: those matched by
\* internal order id, else those matched by gateway order id, else those
\* matched by gateway transaction id
ByPrecedence(n) ==
  LET byOrderId == {i \in DOMAIN payments : payments[i].order_id = NumericValue(n.order_id)}
      byGatewayOrderId == {i \in DOMAIN payments : payments[i].midtrans_order_id = n.order_id}
      byTransactionId ==
        {i \in DOMAIN payments : payments[i].midtrans_transaction_id = n.transaction_id}
  IN IF byOrderId # {} THEN byOrderId
     ELSE IF byGatewayOrderId # {} THEN byGatewayOrderId
     ELSE byTransactionId

\* C23: the Payment the handler resolves a notification to is the one precedence
\* gives: the match by internal order id before the match by gateway order id
\* before the match by gateway transaction id.
C23_ResolvedByPrecedence ==
  [][\A p \in Procs :
       (pc[p] = "idle" /\ pc'[p] = "wh_payment") =>
          /\ loc'[p].payment_id \in ByPrecedence(loc'[p].req)
          /\ Cardinality(ByPrecedence(loc'[p].req)) = 1]_vars

\* the handler at p completes the processing of a notification in this step
\* ('Webhook processed successfully')
WebhookProcessed(p) == WebhookAnswers(p) /\ resp'[p].code = 200

\* C24: when the handler has processed a notification, payment_date is the time
\* of this notification if its transaction_status is capture or settlement and
\* the value the handler found otherwise, and expiry_time is the time of this
\* notification if its transaction_status is expire and the value the handler
\* found otherwise.
C24_DatesWritten ==
  [][\A p \in Procs :
       WebhookProcessed(p) =>
          LET l == loc[p]
              after == payments'[l.payment_id]
              ts == l.req.transaction_status
          IN /\ after.payment_date = IF ts \in {"capture", "settlement"} THEN now'
                                     ELSE l.payment.payment_date
             /\ after.expiry_time = IF ts = "expire" THEN now'
                                    ELSE l.payment.expiry_time]_vars

\* a capture was processed after an expiry: both dates are set, payment_date
\* by the capture
C24_Witness ==
  \E p \in Procs :
     /\ pc[p] = "done" /\ resp[p].op = "midtransNotification" /\ resp[p].code = 200
     /\ resp[p].req.transaction_status = "capture"
     /\ \E i \in DOMAIN payments :
          /\ payments[i].payment_date = now
          /\ payments[i].expiry_time \in Nat /\ payments[i].expiry_time < now

\* the checkout at p gives up in this step because every candidate order
\* number it drew is carried by an existing order
NumbersExhausted(p) ==
  /\ pc[p] = "idle" /\ pc'[p] = "done"
  /\ resp'[p].op = "createOrder" /\ resp'[p].code = 500 /\ resp'[p].msg = "order_number"

\* C25: no two orders carry the same order_number, however checkouts
\* interleave, and a checkout that finds every candidate number taken answers
\* 500 and leaves orders, stock and cart as they were.
C25_UniqueOrderNumber ==
  /\ [](\A i, j \in DOMAIN orders : i # j => orders[i].order_number # orders[j].order_number)
  /\ [][\A p \in Procs :
          NumbersExhausted(p) => UNCHANGED <<orders, products, cart>>]_vars

\* two orders exist and a third checkout has run out of candidate numbers
C25_Witness ==
  /\ Len(orders) = 2
  /\ \E p \in Procs :
        pc[p] = "done" /\ resp[p].op = "createOrder" /\ resp[p].msg = "order_number"

\* the orders that still hold their stock: those whose status is not cancelled
HoldingOrders == SelectSeq(orders, LAMBDA o : o.status # "cancelled")

\* C26: with requests handled one after the other, whenever no request is in
\* progress each product's stock plus the quantities of its line items in the
\* orders that are not cancelled is its initial stock.
C26_StockConserved ==
  NoneInFlight =>
     \A x \in Products :
        products[x].stock_quantity + OrderedQuantity(HoldingOrders, x)
          = InitProducts[x].stock_quantity

\* the cancelOrder transaction at p commits its restock in this step
CancelCommits(p) == pc[p] = "ca_commit" /\ pc'[p] = "done" /\ resp'[p].code = 200

\* C27: however cancelOrder requests interleave, a cancellation that commits
\* its stock increments commits them for an order that no other cancellation
\* has cancelled yet, so the quantities of an order are added back at most once.
C27_RestockedOnce ==
  [][\A p \in Procs :
       CancelCommits(p) => orders[loc[p].order_id].status \in {"pending", "confirmed"}]_vars

\* C28: once a cancelOrder and a settlement notification for the same order
\* and its only Payment have both been answered, however their steps
\* interleaved, the state is not Payment.status settlement together with
\* Order.payment_status failed (which neither serial order leaves).
C28_CancelVersusSettlement ==
  (NoneInFlight /\ Len(payments) = 1 /\ payments[1].status = "settlement") =>
     orders[payments[1].order_id].payment_status # "failed"

\* an addToCart is answered in this step for a request that asks for an active
\* product with enough stock, of which the user holds no live line but a
\* removed one
ReAdds(p) ==
  /\ pc[p] = "idle" /\ pc'[p] = "done" /\ resp'[p].op = "addToCart"
  /\ resp'[p].req.valid
  /\ resp'[p].req.product_id \in Products
  /\ products[resp'[p].req.product_id].is_active
  /\ products[resp'[p].req.product_id].stock_quantity >= resp'[p].req.quantity
  /\ LiveLines(cart, resp'[p].req.user, resp'[p].req.product_id) = {}
  /\ \E c \in cart : /\ c.user_id = resp'[p].req.user
                     /\ c.product_id = resp'[p].req.product_id
                     /\ c.deleted_at # Null

\* C29: an addToCart for an active product with enough stock, of which the
\* user's line was removed earlier, answers 201 and leaves exactly one live
\* line of the user for the product, with the requested quantity.
C29_ReAddAfterRemoval ==
  [][\A p \in Procs :
       ReAdds(p) =>
          LET req == resp'[p].req IN
          /\ resp'[p].code = 201
          /\ \E c \in cart' :
                /\ LiveLines(cart', req.user, req.product_id) = {c}
                /\ c.quantity = req.quantity]_vars

\* C30: no createOrder or cancelOrder request ends while the store transaction
\* it opened is still open: by the time the client has its response the
\* transaction is committed or rolled back.
C30_TransactionsClosed ==
  [][\A p \in Procs :
       (pc[p] = "done" /\ pc'[p] = "idle" /\ resp[p].op \in {"createOrder", "cancelOrder"})
          => transactions[p] = "none"]_vars
====
